---------------------------- MODULE Spec2Model ----------------------------
(***************************************************************************)
(* Left-greedy (Garside) normal form of braids in the band-generator       *)
(* presentation: permutations, canonical factors (tau, descending cycles,  *)
(* meet) and the Braid class with its normalization sweep and group        *)
(* arithmetic.                                                             *)
(*                                                                         *)
(* A permutation / canonical factor is the Python list array_form, kept as *)
(* a sequence: array_form[i] is P[i+1].  The size-0 value is <<>>.         *)
(* A braid is the record [n, p, a] of its three attributes.                *)
(***************************************************************************)
EXTENDS Integers, Sequences, FiniteSets, TLC

(***************************************************************************)
(* Bounds of the model                                                     *)
(***************************************************************************)
\* a session's inputs are bounded by their total size: the width n plus the
\* number of generators (and, for powers, the magnitudes of the exponents);
\* canonical factors taken on their own have width at most Size - 2
Size == 6

(***************************************************************************)
(* Python list helpers                                                     *)
(***************************************************************************)
\* list(range(0, n))
Range0(n) == [i \in 1..n |-> i - 1]

\* a Python list with one item replaced: lst[i] = v (0-based i)
ListSet(lst, i, v) ==
    SubSeq(lst, 1, i) \o <<v>> \o SubSeq(lst, i + 2, Len(lst))

Abs(x) == IF x < 0 THEN -x ELSE x

SetMax(S) == CHOOSE m \in S : \A y \in S : y <= m

(***************************************************************************)
(* Permutation (math_braid/permutation.py)                                 *)
(***************************************************************************)
\* Permutation.__eq__(self, other): a size-0 other stands for the identity
\* of any width, otherwise the two arrays are compared
PermEq(self, other) ==
    IF Len(other) = 0 THEN Len(self) = 0 \/ self = Range0(Len(self))
    ELSE self = other

\* a product that indexes self by other
PermMulReversed(self, other) ==
    IF Len(self) = 0 THEN other
    ELSE IF Len(other) = 0 THEN self
    ELSE [i \in 1..Len(self) |-> self[other[i] + 1]]

\* Permutation.__mul__(self, other): ans[i] = other[self[i]], with the
\* size-0 shortcuts; equal nonzero sizes are the caller's obligation here
\* (the code raises TypeError otherwise).
PermMul(self, other) ==
    IF Len(self) = 0 THEN other
    ELSE IF Len(other) = 0 THEN self
    ELSE [i \in 1..Len(self) |-> other[self[i] + 1]]

(***************************************************************************)
(* CanonicalFactor (math_braid/canonical_factor.py)                        *)
(***************************************************************************)
\* CanonicalFactor.__mul__(self, other) = Permutation.__mul__(other, self)
CFMul(self, other) == PermMul(other, self)

\* CanonicalFactor.__nonzero__
CFBool(self) == Len(self) # 0 /\ self # Range0(Len(self))

\* CanonicalFactor.__eq__(self, other)
CFEq(self, other) ==
    IF Len(other) = 0
    THEN Len(self) = 0 \/ self = Range0(Len(self))
    ELSE self = other

\* CanonicalFactor.__invert__: mapping = [0]*n; mapping[j] = i for each
\* (i, j) in enumerate(array_form), later writes winning.
CFInv(self) ==
    IF Len(self) = 0 THEN << >>
    ELSE [j \in 1..Len(self) |->
            LET S == {i \in 1..Len(self) : self[i] = j - 1}
            IN  IF S = {} THEN 0 ELSE SetMax(S) - 1]

\* a tau that shifts the positions but not the values
tauNoShift(self, power) ==
    [i \in 1..Len(self) |-> self[((i - 1 - power) % Len(self)) + 1]]

\* a tau that turns the wrong way
tauBackward(self, power) ==
    [i \in 1..Len(self) |->
        (self[((i - 1 + power) % Len(self)) + 1] - power) % Len(self)]

\* a tau that drops the sign of its power
tauAbs(self, power) ==
    [i \in 1..Len(self) |->
        (self[((i - 1 - (IF power < 0 THEN -power ELSE power)) % Len(self)) + 1]
            + (IF power < 0 THEN -power ELSE power)) % Len(self)]

\* CanonicalFactor.tau(power)
tau(self, power) ==
    LET n == Len(self)
    IN  [i \in 1..n |-> (self[((i - 1 - power) % n) + 1] + power) % n]

\* reduce(CanonicalFactor.__mul__, [x] * count, acc)
RECURSIVE CFTimes(_, _, _)
CFTimes(acc, x, count) ==
    IF count = 0 THEN acc ELSE CFTimes(CFMul(acc, x), x, count - 1)

\* Permutation.__pow__ on a canonical factor: the empty factor times self
\* exponent times, or ~self times itself for a negative exponent
CFPow(self, exponent) ==
    IF exponent >= 0 THEN CFTimes(<< >>, self, exponent)
    ELSE CFTimes(CFInv(self), CFInv(self), -exponent - 1)

\* createFromPair with the wrap-around of the negative branch left out
createFromPairNoWrap(pair, n) ==
    IF pair[1] > pair[2]
    THEN ListSet(ListSet(Range0(n), pair[1] - 1, pair[2] - 1),
                 pair[2] - 1, pair[1] - 1)
    ELSE IF pair[1] < pair[2]
    THEN ListSet(ListSet(<<n - 1>> \o Range0(n - 1),
                         pair[1] - 1, pair[2] - 2),
                 pair[2] - 1, pair[1] - 2)
    ELSE Range0(n)

\* CanonicalFactor.createFromPair(pair, n)
createFromPair(pair, n) ==
    IF pair[1] > pair[2]
    THEN ListSet(ListSet(Range0(n), pair[1] - 1, pair[2] - 1),
                 pair[2] - 1, pair[1] - 1)
    ELSE IF pair[1] < pair[2]
    THEN ListSet(ListSet(<<n - 1>> \o Range0(n - 1),
                         pair[1] - 1, (pair[2] - 2) % n),
                 pair[2] - 1, (pair[1] - 2) % n)
    ELSE Range0(n)

\* the loop of the d_cycles property: i runs from n-1 down to 0
RECURSIVE DCyclesLoop(_, _, _)
DCyclesLoop(arr, cyc, i) ==
    IF i < 0 THEN cyc
    ELSE DCyclesLoop(arr,
                     IF arr[i + 1] < i
                     THEN ListSet(cyc, arr[i + 1], cyc[i + 1])
                     ELSE cyc,
                     i - 1)

\* CanonicalFactor.d_cycles
d_cycles(self) == DCyclesLoop(self, Range0(Len(self)), Len(self) - 1)

\* the loop of createFromDcycle: st = [prev, lst], i runs from 0 to n-1
RECURSIVE FromDcycleLoop(_, _, _, _)
FromDcycleLoop(dc, prev, lst, i) ==
    IF i >= Len(dc) THEN lst
    ELSE LET c == dc[i + 1]
         IN  FromDcycleLoop(dc,
                            ListSet(prev, c, i),
                            ListSet(lst, i, IF prev[c + 1] < 0 THEN c
                                            ELSE prev[c + 1]),
                            i + 1)

\* a conversion that sends every index to the maximum of its cycle
createFromDcycleMax(dc) == dc

\* CanonicalFactor.createFromDcycle(d_cycles)
createFromDcycle(dc) ==
    FromDcycleLoop(dc, [i \in 1..Len(dc) |-> -1], [i \in 1..Len(dc) |-> -1], 0)

\* the sort key of meet: (self_d_cycles[x], other_d_cycles[x]) compared as
\* Python tuples
KeyLess(sc, oc, x, y) ==
    \/ sc[x + 1] < sc[y + 1]
    \/ sc[x + 1] = sc[y + 1] /\ oc[x + 1] < oc[y + 1]

\* a key comparison that looks at self's cycles only
KeySameFirst(sc, oc, x, y) == sc[x + 1] = sc[y + 1]

KeySame(sc, oc, x, y) == sc[x + 1] = sc[y + 1] /\ oc[x + 1] = oc[y + 1]

\* order.sort(key=...); order.reverse(): the sort is stable, so after the
\* reversal equal keys come with the larger index first.  Built by taking
\* the last element of the sorted list first.
RECURSIVE MeetOrder(_, _, _)
MeetOrder(sc, oc, S) ==
    IF S = {} THEN << >>
    ELSE LET last == CHOOSE x \in S : \A y \in S :
                        \/ KeyLess(sc, oc, y, x)
                        \/ KeySame(sc, oc, x, y) /\ y <= x
         IN  <<last>> \o MeetOrder(sc, oc, S \ {last})

\* a grouping that starts a new group only where other's cycle changes
RECURSIVE MeetLeadersOther(_, _, _, _, _, _)
MeetLeadersOther(sc, oc, order, k, j, dc) ==
    IF k > Len(order) THEN dc
    ELSE LET x  == order[k]
             j2 == IF oc[j + 1] = oc[x + 1] THEN j ELSE x
         IN  MeetLeadersOther(sc, oc, order, k + 1, j2, ListSet(dc, x, j2))

\* for x in order[1:]: the group leader j and the d_cycles array
RECURSIVE MeetLeaders(_, _, _, _, _, _)
MeetLeaders(sc, oc, order, k, j, dc) ==
    IF k > Len(order) THEN dc
    ELSE LET x  == order[k]
             j2 == IF KeySame(sc, oc, j, x) THEN j ELSE x
         IN  MeetLeaders(sc, oc, order, k + 1, j2, ListSet(dc, x, j2))

\* j = order[0]; d_cycles = [j] * self.n; for x in order[1:]: ...
MeetGroups(sc, oc, order) ==
    MeetLeaders(sc, oc, order, 2, order[1], [i \in 1..Len(order) |-> order[1]])

\* the sorted order and the grouping, given the two d_cycles arrays
MeetSorted(sc, oc) == MeetGroups(sc, oc, MeetOrder(sc, oc, 0..(Len(sc) - 1)))

\* the d_cycles array meet hands to createFromDcycle
MeetDcycles(self, other) == MeetSorted(d_cycles(self), d_cycles(other))

\* CanonicalFactor.meet(self, other), operands of equal size or size 0
meet(self, other) ==
    IF Len(self) = 0 \/ Len(other) = 0 THEN << >>
    ELSE createFromDcycle(MeetDcycles(self, other))

(***************************************************************************)
(* Braid (math_braid/braid.py)                                             *)
(***************************************************************************)
\* Braid.d(n): the fundamental factor
d(n) == <<n - 1>> \o Range0(n - 1)

\* Braid._d, the class dictionary behind Braid.d, is a set of entries
\* [key |-> n, val |-> factor]
dKeys(memo) == {e.key : e \in memo}

\* a dictionary of one slot, holding the width asked for last
dMemoOneSlot(memo, w) == {[key |-> w, val |-> <<w - 1>> \o Range0(w - 1)]}

\* Braid.d(n), lines 301-302: the dictionary after the call
dMemo(memo, w) ==
    IF w \in dKeys(memo) THEN memo
    ELSE memo \cup {[key |-> w, val |-> <<w - 1>> \o Range0(w - 1)]}

\* Braid.d(n), line 303: the factor the call returns
dValue(memo, w) == (CHOOSE e \in dMemo(memo, w) : e.key = w).val

\* the dictionary after Braid(v, w) for the words v of ws: an empty word
\* leaves __init__ at line 90, any other reaches Braid.d at line 132
dAfterWords(memo, w, ws) ==
    IF \E v \in ws : v # << >> THEN dMemo(memo, w) ELSE memo

\* the dictionary after ~b or b ** e: the identity shortcuts ask for nothing
dAfterBraid(memo, b) ==
    IF b.p # 0 \/ Len(b.a) # 0 THEN dMemo(memo, b.n) ELSE memo

\* lines 148-154: a[j+1] and a[j] are rewritten, rightmost shrinks when the
\* rightmost slot of the window became the identity
SweepStore(st, j, b, a_jplus) ==
    [a |-> ListSet(ListSet(st.a, j + 1,
                           IF CFBool(a_jplus) THEN a_jplus ELSE << >>),
                   j, CFMul(st.a[j + 1], b)),
     rightmost |-> IF ~CFBool(a_jplus) /\ st.rightmost = j
                   THEN st.rightmost - 1 ELSE st.rightmost,
     newleft |-> j]

\* a sweep that never moves anything to the left
SweepNoShift(st, j, b) == st

\* a shift that leaves b in the right factor as well
SweepShiftKeep(st, j, b) ==
    IF CFBool(b) THEN SweepStore(st, j, b, st.a[j + 2])
    ELSE st

\* lines 143-146: if b: shift b one factor to the left
SweepShift(st, j, b) ==
    IF CFBool(b) THEN SweepStore(st, j, b, CFMul(CFInv(b), st.a[j + 2]))
    ELSE st

\* one iteration of "for j in range(rightmost, leftmost, -1)" on the sweep
\* state st = [a, rightmost, newleft]
SweepBody(st, n, j) ==
    SweepShift(st, j, meet(CFMul(CFInv(st.a[j + 1]), d(n)), st.a[j + 2]))

\* the for loop: j from the pass's starting rightmost down to leftmost + 1
RECURSIVE SweepFor(_, _, _, _)
SweepFor(st, n, j, leftmost) ==
    IF j <= leftmost THEN st
    ELSE SweepFor(SweepBody(st, n, j), n, j - 1, leftmost)

\* one pass: newleft = rightmost, then the for loop
SweepPass(a, n, leftmost, rightmost) ==
    SweepFor([a |-> a, rightmost |-> rightmost, newleft |-> rightmost],
             n, rightmost, leftmost)

\* a sweep that stops after its first pass
SweepStop(st, n) == [a |-> st.a, rightmost |-> st.rightmost]

\* while leftmost < rightmost: one pass each, then leftmost = newleft
RECURSIVE SweepWhile(_, _, _, _)
RECURSIVE SweepAgain(_, _)
SweepWhile(a, n, leftmost, rightmost) ==
    IF ~(leftmost < rightmost) THEN [a |-> a, rightmost |-> rightmost]
    ELSE SweepAgain(SweepPass(a, n, leftmost, rightmost), n)

SweepAgain(st, n) == SweepWhile(st.a, n, st.newleft, st.rightmost)

\* while l > 0 and not self.a[-1]: del self.a[-1]
RECURSIVE TrimRight(_)
TrimRight(a) ==
    IF Len(a) > 0 /\ ~CFBool(a[Len(a)]) THEN TrimRight(SubSeq(a, 1, Len(a) - 1))
    ELSE a

\* while l > 0 and self.a[0] == d: del self.a[0]; self.p += 1
RECURSIVE TrimLeft(_, _, _)
TrimLeft(a, n, p) ==
    IF Len(a) > 0 /\ CFEq(a[1], d(n)) THEN TrimLeft(Tail(a), n, p + 1)
    ELSE [n |-> n, p |-> p, a |-> a]

\* a clean-up that keeps what the sweep left at the right end
CleanUpKeepTail(sw, n, p) == TrimLeft(sw.a, n, p)

\* lines 158-167: l = rightmost + 2; del self.a[l:]; then the two trims
CleanUp(sw, n, p) ==
    TrimLeft(TrimRight(SubSeq(sw.a, 1, sw.rightmost + 2)), n, p)

\* Braid.__init__ lines 129-167: sweep and clean-up of the factor list
Normalize(a, n, p) == CleanUp(SweepWhile(a, n, -1, Len(a) - 2), n, p)

(***************************************************************************)
(* The sweep of lines 131-155 one step at a time.  sw holds the locals     *)
(* a, p, leftmost, rightmost, newleft and j, the place reached (phase),    *)
(* the boundaries the pass under way started from (prevleft, prevright),   *)
(* the passes and meet evaluations so far, and the list and power the      *)
(* sweep began with (a0, p0).                                              *)
(***************************************************************************)
\* lines 131-135
SweepInit(a, p) ==
    [a |-> a, p |-> p, leftmost |-> -1, rightmost |-> Len(a) - 2,
     newleft |-> -1, j |-> -1, phase |-> "while",
     prevleft |-> -1, prevright |-> Len(a) - 2, passes |-> 0, meets |-> 0,
     a0 |-> a, p0 |-> p]

\* a pass that starts with newleft at the left boundary
PassStartKeepLeft(sw) ==
    [sw EXCEPT !.newleft = sw.leftmost, !.j = sw.rightmost, !.phase = "for",
               !.prevleft = sw.leftmost, !.prevright = sw.rightmost,
               !.passes = sw.passes + 1]

\* line 137 and the start of the for loop of line 138
PassStart(sw) ==
    [sw EXCEPT !.newleft = sw.rightmost, !.j = sw.rightmost, !.phase = "for",
               !.prevleft = sw.leftmost, !.prevright = sw.rightmost,
               !.passes = sw.passes + 1]

\* lines 142-154 for the current j; st is what SweepBody left
IterateStore(sw, st) ==
    [sw EXCEPT !.a = st.a, !.rightmost = st.rightmost, !.newleft = st.newleft,
               !.j = sw.j - 1, !.meets = sw.meets + 1]

\* line 155
PassFinish(sw) == [sw EXCEPT !.leftmost = sw.newleft, !.phase = "while"]

\* Braid.__init__ lines 107-114: Artin generators to band generators;
\* out-of-range entries are dropped
RECURSIVE ArtinToBand(_, _)
ArtinToBand(obj, n) ==
    IF obj = << >> THEN << >>
    ELSE LET x == Head(obj)
         IN  (IF 0 < x /\ x < n THEN << <<x + 1, x>> >>
              ELSE IF -n < x /\ x < 0 THEN << <<-x, 1 - x>> >>
              ELSE << >>) \o ArtinToBand(Tail(obj), n)

\* a shift that exchanges the components exactly when the order was kept
taubandSwapKept(generator, n, power) ==
    IF power = 0 THEN generator
    ELSE LET g0 == generator[1] + power
             g1 == generator[2] + power
             positivity == (g0 > g1)
             h0 == ((g0 - 1) % n) + 1
             h1 == ((g1 - 1) % n) + 1
         IN  IF positivity = (h0 > h1) THEN <<h1, h0>> ELSE <<h0, h1>>

\* a _tauband that wraps the two indices without restoring the orientation
taubandNoSwap(generator, n, power) ==
    <<((generator[1] + power - 1) % n) + 1, ((generator[2] + power - 1) % n) + 1>>

\* Braid._tauband(generator, n, power): the pair after the in-place update
_tauband(generator, n, power) ==
    IF power = 0 THEN generator
    ELSE LET g0 == generator[1] + power
             g1 == generator[2] + power
             positivity == (g0 > g1)
             h0 == ((g0 - 1) % n) + 1
             h1 == ((g1 - 1) % n) + 1
         IN  IF positivity # (h0 > h1) THEN <<h1, h0>> ELSE <<h0, h1>>

\* Braid.__init__ lines 120-124: for i in range(len(bandgens) - 2, -1, -1)
\* on the state [g, p]
RECURSIVE SignLoop(_, _, _, _)
SignLoop(g, n, p, i) ==
    IF i < 0 THEN [g |-> g, p |-> p]
    ELSE LET p2 == IF g[i + 2][1] < g[i + 2][2] THEN p - 1 ELSE p
         IN  SignLoop(ListSet(g, i, _tauband(g[i + 1], n, p2)), n, p2, i - 1)

\* a raised exception stands for the braid a failed constructor call or
\* operator returns
Raised(e) == [err |-> e]

\* lines 125-128: the leftmost generator's sign, then createFromPair on
\* every pair; sl = [g, p] is what the loop of lines 121-124 left
BandFactors(sl, n) ==
    Normalize([i \in 1..Len(sl.g) |-> createFromPair(sl.g[i], n)], n,
              IF sl.g[1][1] < sl.g[1][2] THEN sl.p - 1 ELSE sl.p)

\* lines 125-128 alone: the power and the factor list the sweep starts with
BandSweepInit(sl, n) ==
    SweepInit([i \in 1..Len(sl.g) |-> createFromPair(sl.g[i], n)],
              IF sl.g[1][1] < sl.g[1][2] THEN sl.p - 1 ELSE sl.p)

\* Braid.__init__ lines 117-167 on a list of band generators; bandgens[0]
\* of an empty list raises IndexError
BraidFromBand(bandgens, n) ==
    IF bandgens = << >> THEN Raised("IndexError")
    ELSE BandFactors(SignLoop(bandgens, n, 0, Len(bandgens) - 2), n)

\* the caller's list after Braid(obj, n): line 103 copies the outer list
\* only, so the pairs lines 120-124 shift in place are the caller's
CallerWord(obj, n) == SignLoop(obj, n, 0, Len(obj) - 2).g

\* Braid(obj, n) for a list obj of Artin generators (integers)
BraidFromArtin(obj, n) ==
    IF obj = << >> THEN [n |-> n, p |-> 0, a |-> << >>]
    ELSE BraidFromBand(ArtinToBand(obj, n), n)

\* a constructor that stores the power and the factor list as given
BraidFromFactorsKept(a, n, p) == [n |-> n, p |-> p, a |-> a]

\* Braid(a, n=n, p=p) for a list a of canonical factors
BraidFromFactors(a, n, p) ==
    IF a = << >> THEN [n |-> n, p |-> p, a |-> << >>]
    ELSE Normalize(a, n, p)

\* Braid(): the identity of width 0
BraidEmpty == [n |-> 0, p |-> 0, a |-> << >>]

\* Braid.__nonzero__
BraidBool(self) == self.p # 0 \/ Len(self.a) # 0

\* a product that does not carry the left factors across D^(other.p)
BraidMulNoTau(self, other) ==
    IF ~BraidBool(self) THEN other
    ELSE IF ~BraidBool(other) THEN self
    ELSE IF self.n # other.n THEN Raised("TypeError")
    ELSE BraidFromFactors(self.a \o other.a, self.n, self.p + other.p)

\* Braid.__mul__
BraidMul(self, other) ==
    IF ~BraidBool(self) THEN other
    ELSE IF ~BraidBool(other) THEN self
    ELSE IF self.n # other.n THEN Raised("TypeError")
    ELSE BraidFromFactors([i \in 1..Len(self.a) |-> tau(self.a[i], other.p)]
                            \o other.a,
                          self.n, self.p + other.p)

\* an inverse whose factors are conjugated by one power of D too few
BraidInvShift(self) ==
    IF ~BraidBool(self) THEN self
    ELSE LET k == Len(self.a)
         IN  BraidFromFactors(
                 [m \in 1..k |->
                     tau(CFMul(CFInv(self.a[k - m + 1]), d(self.n)),
                         -self.p - (k - m))],
                 self.n, -self.p - k)

\* Braid.__invert__
BraidInv(self) ==
    IF ~BraidBool(self) THEN self
    ELSE LET k == Len(self.a)
         IN  BraidFromFactors(
                 [m \in 1..k |->
                     LET i == k - m
                     IN  tau(CFMul(CFInv(self.a[i + 1]), d(self.n)),
                             -self.p - i - 1)],
                 self.n, -self.p - k)

\* reduce(mul, [x] * count, acc)
RECURSIVE MulTimes(_, _, _)
MulTimes(acc, x, count) ==
    IF count = 0 THEN acc ELSE MulTimes(BraidMul(acc, x), x, count - 1)

\* reduce(mul, [x] * count) for count >= 1
MulTimes1(x, count) == MulTimes(x, x, count - 1)

\* a power that multiplies one inverse too many for negative exponents
BraidPowOff(self, exponent) ==
    IF exponent >= 0 THEN MulTimes(BraidEmpty, self, exponent)
    ELSE MulTimes(BraidInv(self), BraidInv(self), -exponent)

\* Braid.__pow__
BraidPow(self, exponent) ==
    IF exponent >= 0 THEN MulTimes(BraidEmpty, self, exponent)
    ELSE MulTimes1(BraidInv(self), -exponent)

\* self.a == other.a on Python lists of canonical factors
FactorsEq(a, b) ==
    Len(a) = Len(b) /\ \A i \in 1..Len(a) : CFEq(a[i], b[i])

\* an equality that takes the shortcut on width 0 instead of on triviality
BraidEqWidthZero(self, other) ==
    IF other.n = 0 THEN ~BraidBool(self)
    ELSE IF self.n = 0 THEN ~BraidBool(other)
    ELSE IF self.n # other.n THEN FALSE
    ELSE self.p = other.p /\ FactorsEq(self.a, other.a)

\* Braid.__eq__, with Python's fallback when it returns NotImplemented:
\* the reflected other.__eq__(self), then identity of the two objects
BraidEq(self, other) ==
    IF ~BraidBool(other) THEN ~BraidBool(self)
    ELSE IF self.n # other.n THEN FALSE
    ELSE self.p = other.p /\ FactorsEq(self.a, other.a)

\* a twist that leaves the factors as they are for a negative generator
twistNoTau(self, i) ==
    IF 0 < i
    THEN BraidFromFactors(self.a \o <<createFromPair(<<i + 1, i>>, self.n)>>,
                          self.n, self.p)
    ELSE BraidFromFactors(self.a \o <<createFromPair(<<-i, 1 - i>>, self.n)>>,
                          self.n, self.p - 1)

\* Braid.twist(i), 0 < |i| < n
twist(self, i) ==
    IF 0 < i
    THEN BraidFromFactors(self.a \o <<createFromPair(<<i + 1, i>>, self.n)>>,
                          self.n, self.p)
    ELSE BraidFromFactors([m \in 1..Len(self.a) |-> tau(self.a[m], -1)]
                            \o <<createFromPair(<<-i, 1 - i>>, self.n)>>,
                          self.n, self.p - 1)

(***************************************************************************)
(* Strings are sequences of characters.  Braid.__str__ formats            *)
(* '[%s] D^(%s) * %s' % (n, p, a), the list a printing each factor by its  *)
(* __repr__; Braid(str) matches the regular expression of line 72 and      *)
(* reads the numbers back.                                                 *)
(***************************************************************************)
DigitChars == <<"0", "1", "2", "3", "4", "5", "6", "7", "8", "9">>

\* str(k) for an integer k >= 0
RECURSIVE NatStr(_)
NatStr(k) ==
    IF k < 10 THEN <<DigitChars[k + 1]>>
    ELSE NatStr(k \div 10) \o <<DigitChars[(k % 10) + 1]>>

\* str(k) for an integer k
IntStr(k) == IF k < 0 THEN <<"-">> \o NatStr(-k) ELSE NatStr(k)

\* str(list) of a list of integers: '[v0, v1, ...]'
RECURSIVE IntsStr(_, _)
IntsStr(lst, i) ==
    IF i > Len(lst) THEN << >>
    ELSE (IF i > 1 THEN <<",", " ">> ELSE << >>) \o IntStr(lst[i])
         \o IntsStr(lst, i + 1)

ListStr(lst) == <<"[">> \o IntsStr(lst, 1) \o <<"]">>

\* CanonicalFactor.__repr__: 'CanonicalFactor(%s)' % str(self)
CFRepr(self) ==
    <<"C", "a", "n", "o", "n", "i", "c", "a", "l",
      "F", "a", "c", "t", "o", "r", "(">> \o ListStr(self) \o <<")">>

\* the items of str(self.a), each factor by its __repr__
RECURSIVE FactorsStr(_, _)
FactorsStr(a, i) ==
    IF i > Len(a) THEN << >>
    ELSE (IF i > 1 THEN <<",", " ">> ELSE << >>) \o CFRepr(a[i])
         \o FactorsStr(a, i + 1)

\* Braid.__str__
BraidStr(self) ==
    <<"[">> \o NatStr(self.n) \o <<"]", " ", "D", "^", "(">> \o IntStr(self.p)
        \o <<")", " ", "*", " ">> \o <<"[">> \o FactorsStr(self.a, 1) \o <<"]">>

IsDigit(c) == \E k \in 1..10 : DigitChars[k] = c

IsSpace(c) == c = " "

\* the last index j >= i - 1 with s[i..j] all digits
RECURSIVE DigitRun(_, _)
DigitRun(s, i) ==
    IF i <= Len(s) /\ IsDigit(s[i]) THEN DigitRun(s, i + 1) ELSE i - 1

\* s has the literal lit at index i
HasAt(s, i, lit) ==
    /\ i + Len(lit) - 1 <= Len(s)
    /\ \A k \in 1..Len(lit) : s[i + k - 1] = lit[k]

\* int(x) of a run of digits
RECURSIVE ParseNat(_, _, _)
ParseNat(s, i, acc) ==
    IF i > Len(s) THEN acc
    ELSE ParseNat(s, i + 1,
                  10 * acc + (CHOOSE k \in 0..9 : DigitChars[k + 1] = s[i]))

\* x.strip() and x.strip('[]'): drop the characters of the class at both ends
RECURSIVE StripLeft(_, _)
StripLeft(s, class) ==
    IF s # << >> /\ s[1] \in class THEN StripLeft(Tail(s), class) ELSE s

RECURSIVE StripRight(_, _)
StripRight(s, class) ==
    IF s # << >> /\ s[Len(s)] \in class
    THEN StripRight(SubSeq(s, 1, Len(s) - 1), class) ELSE s

Strip(s, class) == StripRight(StripLeft(s, class), class)

\* s.split(','): the pieces between the commas, from index i on, cur being
\* the piece under way
RECURSIVE SplitComma(_, _, _)
SplitComma(s, i, cur) ==
    IF i > Len(s) THEN <<cur>>
    ELSE IF s[i] = "," THEN <<cur>> \o SplitComma(s, i + 1, << >>)
    ELSE SplitComma(s, i + 1, Append(cur, s[i]))

\* the pieces as they reach int(): stripped of blanks, then of brackets
Items(body) ==
    LET pieces == SplitComma(body, 1, << >>)
    IN  [k \in 1..Len(pieces) |-> Strip(Strip(pieces[k], {" "}), {"[", "]"})]

\* int(x) accepts blanks around one run of digits
IsNumber(x) ==
    LET t == Strip(x, {" "}) IN t # << >> /\ \A k \in 1..Len(t) : IsDigit(t[k])

\* while m: a, m = m[:n], m[n:]: the numbers in rows of n
RECURSIVE Rows(_, _)
Rows(m, w) ==
    IF m = << >> THEN << >>
    ELSE IF Len(m) <= w THEN <<m>>
    ELSE <<SubSeq(m, 1, w)>> \o Rows(SubSeq(m, w + 1, Len(m)), w)

\* lines 75-83 once the expression has matched: the groups are the digits
\* s[2..j1], the signed digits s[i2..j2] and the body
BraidFromGroups(w, sign, pw, body) ==
    IF body = << >> THEN [n |-> w, p |-> sign * pw, a |-> << >>]
    ELSE IF \E k \in 1..Len(Items(body)) : ~IsNumber(Items(body)[k])
    THEN Raised("ValueError")
    ELSE [n |-> w, p |-> sign * pw,
          a |-> Rows([k \in 1..Len(Items(body)) |->
                         ParseNat(Strip(Items(body)[k], {" "}), 1, 0)], w)]

\* the match from the power on: i2 is where the digits of the power start
MatchPower(s, w, sign, i2, j2) ==
    IF j2 < i2 \/ ~HasAt(s, j2 + 1, <<")", " ", "*", " ", "[">>)
         \/ Len(s) < j2 + 6 \/ s[Len(s)] # "]"
         \/ \E k \in (j2 + 6)..(Len(s) - 1) :
                ~(IsDigit(s[k]) \/ s[k] \in {",", "[", "]", " "})
    THEN Raised("TypeError")
    ELSE BraidFromGroups(w, sign, ParseNat(SubSeq(s, i2, j2), 1, 0),
                         SubSeq(s, j2 + 6, Len(s) - 1))

\* the match from the width on: the width is s[2..j1]
MatchWidth(s, j1) ==
    IF j1 < 2 \/ ~HasAt(s, j1 + 1, <<"]", " ", "D", "^", "(">>)
    THEN Raised("TypeError")
    ELSE IF HasAt(s, j1 + 6, <<"-">>)
    THEN MatchPower(s, ParseNat(SubSeq(s, 2, j1), 1, 0), -1, j1 + 7,
                    DigitRun(s, j1 + 7))
    ELSE MatchPower(s, ParseNat(SubSeq(s, 2, j1), 1, 0), 1, j1 + 6,
                    DigitRun(s, j1 + 6))

\* Braid(obj) for a string obj: blanks at both ends are allowed; when the
\* expression does not match, __init__ returns NotImplemented and the call
\* raises TypeError
BraidFromStr(obj) ==
    IF ~HasAt(Strip(obj, {" "}), 1, <<"[">>) THEN Raised("TypeError")
    ELSE MatchWidth(Strip(obj, {" "}), DigitRun(Strip(obj, {" "}), 2))

(***************************************************************************)
(* Braid objects by identity: a heap is the sequence of the Braid objects  *)
(* that exist, an object is named by its index, and an operation returns   *)
(* the heap it leaves together with the index of the object it returns.    *)
(***************************************************************************)
\* Braid(...): a new object holding b
NewObject(heap, b) == [heap |-> Append(heap, b), ret |-> Len(heap) + 1]

\* a product that returns its operand itself on the identity shortcuts
HeapMulShared(heap, i, j) ==
    IF ~BraidBool(heap[i]) THEN [heap |-> heap, ret |-> j]
    ELSE IF ~BraidBool(heap[j]) THEN [heap |-> heap, ret |-> i]
    ELSE NewObject(heap, BraidMul(heap[i], heap[j]))

\* Braid.__mul__ on the objects i and j: each return is a Braid(...) call
HeapMul(heap, i, j) == NewObject(heap, BraidMul(heap[i], heap[j]))

\* Braid.__invert__ on the object i
HeapInv(heap, i) == NewObject(heap, BraidInv(heap[i]))

\* Braid.twist on the object i
HeapTwist(heap, i, g) == NewObject(heap, twist(heap[i], g))

\* reduce(mul, [x] * count, acc) on objects, acc being st.ret
RECURSIVE HeapMulTimes(_, _, _)
HeapMulTimes(st, x, count) ==
    IF count = 0 THEN st
    ELSE HeapMulTimes(HeapMul(st.heap, st.ret, x), x, count - 1)

\* reduce(mul, [~self] * count) on objects, st.ret being ~self
HeapMulTimes1(st, count) == HeapMulTimes(st, st.ret, count - 1)

\* Braid.__pow__ on the object i
HeapPow(heap, i, exponent) ==
    IF exponent >= 0
    THEN HeapMulTimes(NewObject(heap, BraidEmpty), i, exponent)
    ELSE HeapMulTimes1(HeapInv(heap, i), -exponent)

\* reduce(lambda x, y: x * y, a, acc) from the i-th factor on
RECURSIVE FactorProduct(_, _, _)
FactorProduct(acc, a, i) ==
    IF i > Len(a) THEN acc
    ELSE FactorProduct(CFMul(acc, a[i]), a, i + 1)

\* getPermutation without the power of D
getPermutationNoD(self) ==
    IF self.n = 0 THEN << >>
    ELSE FactorProduct(Range0(self.n), self.a, 1)

\* Braid.getPermutation
getPermutation(self) ==
    IF self.n = 0 THEN << >>
    ELSE CFMul(CFPow(d(self.n), self.p),
               FactorProduct(Range0(self.n), self.a, 1))

\* CanonicalFactor.numTranspositions
numTranspositions(self) ==
    Cardinality({i \in 0..(Len(self) - 1) : self[i + 1] < i})

\* getTranspositions without the final ans.reverse()
RECURSIVE getTranspositionsNoReverse(_, _)
getTranspositionsNoReverse(self, i) ==
    IF i < 0 THEN << >>
    ELSE getTranspositionsNoReverse(self, i - 1)
         \o (IF self[i + 1] < i THEN << <<i + 1, self[i + 1] + 1>> >>
             ELSE << >>)

\* CanonicalFactor.getTranspositions: pairs [i+1, v+1] for array_form[i] = v
\* < i, the larger i first
RECURSIVE getTranspositions(_, _)
getTranspositions(self, i) ==
    IF i < 0 THEN << >>
    ELSE (IF self[i + 1] < i THEN << <<i + 1, self[i + 1] + 1>> >> ELSE << >>)
         \o getTranspositions(self, i - 1)

(***************************************************************************)
(* The braid group itself, independent of the normal form: B_n acts        *)
(* faithfully on the free group F_n (Artin), sigma_i sending x_i to        *)
(* x_i x_(i+1) x_i^-1 and x_(i+1) to x_i.  Two Artin words are the same    *)
(* group element iff they act alike.  A free-group word is a sequence of   *)
(* nonzero integers, -k the inverse of the letter k.                       *)
(***************************************************************************)
RECURSIVE FreeAppend(_, _, _)
FreeAppend(out, w, i) ==
    IF i > Len(w) THEN out
    ELSE IF Len(out) > 0 /\ out[Len(out)] = -w[i]
         THEN FreeAppend(SubSeq(out, 1, Len(out) - 1), w, i + 1)
         ELSE FreeAppend(Append(out, w[i]), w, i + 1)

FreeMul(u, v) == FreeAppend(u, v, 1)

FreeInv(u) == [i \in 1..Len(u) |-> -u[Len(u) + 1 - i]]

ArtinStep(img, s) ==
    LET i == IF s > 0 THEN s ELSE -s
    IN  IF s > 0
        THEN ListSet(ListSet(img, i - 1,
                             FreeMul(FreeMul(img[i], img[i + 1]),
                                     FreeInv(img[i]))),
                     i, img[i])
        ELSE ListSet(ListSet(img, i - 1, img[i + 1]),
                     i, FreeMul(FreeMul(FreeInv(img[i + 1]), img[i]),
                                img[i + 1]))

RECURSIVE ArtinActFrom(_, _, _)
ArtinActFrom(img, w, k) ==
    IF k > Len(w) THEN img ELSE ArtinActFrom(ArtinStep(img, w[k]), w, k + 1)

\* the automorphism of F_n an Artin word of width n stands for
ArtinAct(w, n) == ArtinActFrom([i \in 1..n |-> <<i>>], w, 1)

\* the inverse of an Artin word
WordInv(w) == [i \in 1..Len(w) |-> -w[Len(w) + 1 - i]]

RECURSIVE WordPow(_, _)
WordPow(w, e) ==
    IF e = 0 THEN << >>
    ELSE IF e > 0 THEN w \o WordPow(w, e - 1)
    ELSE WordInv(w) \o WordPow(w, e + 1)

RECURSIVE Flatten(_)
Flatten(ss) == IF ss = << >> THEN << >> ELSE Head(ss) \o Flatten(Tail(ss))

\* the band generator a_ts (t > s) in Artin generators:
\* sigma_(t-1) ... sigma_(s+1) sigma_s sigma_(s+1)^-1 ... sigma_(t-1)^-1
BandWord(t, s) ==
    LET up == [i \in 1..(t - 1 - s) |-> t - i]
    IN  up \o <<s>> \o WordInv(up)

\* D = a_(n,n-1) ... a_(2,1) = sigma_(n-1) ... sigma_1
DWord(n) == [i \in 1..(n - 1) |-> n - i]

\* the Artin word D^p A_1 ... A_k spelled out by a braid's three attributes
BraidWord(b) ==
    WordPow(DWord(b.n), b.p)
    \o Flatten([m \in 1..Len(b.a) |->
                  LET tr == getTranspositions(b.a[m], Len(b.a[m]) - 1)
                  IN  Flatten([q \in 1..Len(tr) |-> BandWord(tr[q][1], tr[q][2])])])

(***************************************************************************)
(* Inputs                                                                  *)
(***************************************************************************)
Widths == 1..Size

\* the Artin generators of width n and their inverses
Gens(n) == {x \in (1 - n)..(n - 1) : x # 0}

\* the Artin words of width n of length at most len
Words(n, len) == UNION {[1..l -> Gens(n)] : l \in 0..len}

\* the band generators [t, s] of width n: a_ts for t > s, its inverse
\* written [s, t]
BandGens(n) == {g \in (1..n) \X (1..n) : g[1] # g[2]}

\* the non-empty band-generator words of width n of length at most len
BandWords(n, len) == UNION {[1..l -> BandGens(n)] : l \in 1..len}

(***************************************************************************)
(* State: one session with the library.  A braid X of width n is built     *)
(* from the Artin word wx; then one operation is applied and its results   *)
(* are kept in res.                                                        *)
(***************************************************************************)
VARIABLES n, op, wx, X, res, fA, fB, fC, _d

vars == <<n, op, wx, X, res, fA, fB, fC, _d>>

NoRes == [none |-> TRUE]

Init ==
    /\ n \in Widths
    /\ op = "init"
    /\ wx = << >>
    /\ X = BraidEmpty
    /\ res = NoRes
    /\ _d = {}
    /\ fA = Range0(n)
    /\ fB = Range0(n)
    /\ fC = Range0(n)

\* X = Braid(w, n)
Construct(w) ==
    /\ op = "init"
    /\ op' = "new"
    /\ wx' = w
    /\ X' = BraidFromArtin(w, n)
    /\ UNCHANGED <<n, res, fA, fB, fC>>
    /\ _d' = dAfterWords(_d, n, {w})

MultiplyRes(v, y) == [v |-> v, y |-> y, xy |-> BraidMul(X, y)]

\* X = Braid(w, n) for a list w of band generators
ConstructBand(w) ==
    /\ op = "init"
    /\ op' = "band"
    /\ wx' = w
    /\ X' = BraidFromBand(w, n)
    /\ UNCHANGED <<n, res, fA, fB, fC>>
    /\ _d' = dMemo(_d, n)

\* the words of the getPermutation doctests, all of width 5
DocWords(w) == IF w = 5 THEN {<<1, 2, -1, -2>>, <<-3>>, << >>} ELSE {}

\* the adjacent transposition of positions |x| - 1 and |x|
Swap(x, w) == ListSet(ListSet(Range0(w), Abs(x) - 1, Abs(x)), Abs(x), Abs(x) - 1)

\* the transpositions of the letters of a word, multiplied in word order
RECURSIVE WordPermutation(_, _, _)
WordPermutation(acc, w, i) ==
    IF i > Len(w) THEN acc
    ELSE WordPermutation([j \in 1..Len(acc) |-> acc[Swap(w[i], Len(acc))[j] + 1]],
                         w, i + 1)

PermRes(w, b) ==
    [w |-> w, b |-> b, perm |-> getPermutation(b),
     word |-> WordPermutation(Range0(n), w, 1)]

\* Braid(w, n).getPermutation()
GetPermutation(w) ==
    /\ op = "init"
    /\ op' = "perm"
    /\ res' = PermRes(w, BraidFromArtin(w, n))
    /\ UNCHANGED <<n, wx, X, fA, fB, fC>>
    /\ _d' = dMemo(_d, n)

ReplayRes(m, A, tr) ==
    [m |-> m, A |-> A, tr |-> tr, num |-> numTranspositions(A),
     b |-> BraidFromBand(tr, n)]

\* Braid(A.getTranspositions(), n) for the m-th factor A of X
Replay(m) ==
    /\ op \in {"new", "band"}
    /\ "a" \in DOMAIN X
    /\ m \in 1..Len(X.a)
    /\ op' = "replay"
    /\ res' = ReplayRes(m, X.a[m], getTranspositions(X.a[m], n - 1))
    /\ UNCHANGED <<n, wx, X, fA, fB, fC>>
    /\ _d' = dMemo(_d, n)

\* X * Braid(v, n)
Multiply(v) ==
    /\ op = "new"
    /\ n + Len(wx) + Len(v) <= Size + 1
    /\ op' = "mul"
    /\ res' = MultiplyRes(v, BraidFromArtin(v, n))
    /\ UNCHANGED <<n, wx, X, fA, fB, fC>>
    /\ _d' = dAfterWords(_d, n, {v})

InvertRes(i) == [inv |-> i, xi |-> BraidMul(X, i), ix |-> BraidMul(i, X)]

\* ~X, X * ~X and ~X * X
Invert ==
    /\ op = "new"
    /\ op' = "inv"
    /\ res' = InvertRes(BraidInv(X))
    /\ UNCHANGED <<n, wx, X, fA, fB, fC>>
    /\ _d' = dAfterBraid(_d, X)

PowerRes(a, b, pa, pb) ==
    [a |-> a, b |-> b, pa |-> pa, pb |-> pb,
     prod |-> BraidMul(pa, pb), pab |-> BraidPow(X, a + b)]

\* X ** a, X ** b, their product and X ** (a + b)
Power(a, b) ==
    /\ op = "new"
    /\ n + Len(wx) + Abs(a) + Abs(b) <= Size + 1
    /\ op' = "pow"
    /\ res' = PowerRes(a, b, BraidPow(X, a), BraidPow(X, b))
    /\ UNCHANGED <<n, wx, X, fA, fB, fC>>
    /\ _d' = dAfterBraid(_d, X)

TwistRes(i, t) ==
    [i |-> i, t |-> t, m |-> BraidMul(X, BraidFromArtin(<<i>>, n)),
     back |-> twist(t, -i)]

\* X.twist(i), X * Braid([i], n) and X.twist(i).twist(-i)
Twist(i) ==
    /\ op = "new"
    /\ op' = "twist"
    /\ res' = TwistRes(i, twist(X, i))
    /\ UNCHANGED <<n, wx, X, fA, fB, fC>>
    /\ _d' = dMemo(_d, n)

PadRes(k, x, u, v) ==
    [k |-> k, x |-> x,
     b1 |-> BraidFromArtin(u \o <<x, -x>> \o v, n),
     b2 |-> BraidFromArtin(u \o <<-x, x>> \o v, n)]

\* Braid(u + [x, -x] + v, n) and Braid(u + [-x, x] + v, n) for wx = u + v,
\* u the first k letters of wx
Pad(k, x) ==
    /\ op = "new"
    /\ k <= Len(wx)
    /\ op' = "pad"
    /\ res' = PadRes(k, x, SubSeq(wx, 1, k), SubSeq(wx, k + 1, Len(wx)))
    /\ UNCHANGED <<n, wx, X, fA, fB, fC>>
    /\ _d' = dMemo(_d, n)

\* Braid(v, n) for a second word v, to be compared with X by ==
Compare(v) ==
    /\ op = "new"
    /\ n + Len(wx) + Len(v) <= Size + 1
    /\ op' = "cmp"
    /\ res' = [v |-> v, y |-> BraidFromArtin(v, n)]
    /\ UNCHANGED <<n, wx, X, fA, fB, fC>>
    /\ _d' = dAfterWords(_d, n, {v})

\* the two sides of an Artin relation: Braid(l, n) and Braid(r, n)
Relation(l, r) ==
    /\ op = "init"
    /\ op' = "rel"
    /\ res' = [l |-> l, r |-> r,
               b1 |-> BraidFromArtin(l, n), b2 |-> BraidFromArtin(r, n)]
    /\ UNCHANGED <<n, wx, X, fA, fB, fC>>
    /\ _d' = dMemo(_d, n)

\* the pairs of words the Artin relations equate in width w:
\* sigma_i sigma_j = sigma_j sigma_i for |i - j| >= 2 and
\* sigma_i sigma_(i+1) sigma_i = sigma_(i+1) sigma_i sigma_(i+1)
ArtinRelations(w) ==
    {<< <<t[1], t[2]>>, <<t[2], t[1]>> >> :
        t \in {q \in (1..(w - 1)) \X (1..(w - 1)) :
                  q[2] - q[1] >= 2 \/ q[1] - q[2] >= 2}}
    \cup {<< <<i, i + 1, i>>, <<i + 1, i, i + 1>> >> : i \in 1..(w - 2)}

AssociateRes(v, z, y, c) ==
    [v |-> v, z |-> z, y |-> y, c |-> c,
     l |-> BraidMul(BraidMul(X, y), c), r |-> BraidMul(X, BraidMul(y, c))]

\* (X * Y) * Z and X * (Y * Z) for Y = Braid(v, n), Z = Braid(z, n)
Associate(v, z) ==
    /\ op = "new"
    /\ n + Len(wx) + Len(v) + Len(z) <= Size
    /\ op' = "assoc"
    /\ res' = AssociateRes(v, z, BraidFromArtin(v, n), BraidFromArtin(z, n))
    /\ UNCHANGED <<n, wx, X, fA, fB, fC>>
    /\ _d' = dAfterWords(_d, n, {v, z})

\* the exponents a session may still afford
Exps == (n + Len(wx) - Size - 1)..(Size + 1 - n - Len(wx))

Next ==
    \/ op = "init" /\ \E w \in Words(n, Size - n) : Construct(w)
    \/ op = "init" /\ \E w \in BandWords(n, Size - n) : ConstructBand(w)
    \/ op = "new" /\ \E v \in Words(n, Size + 1 - n - Len(wx)) : Multiply(v)
    \/ Invert
    \/ op = "new" /\ \E a \in Exps, b \in Exps : Power(a, b)
    \/ op = "new" /\ \E i \in Gens(n) : Twist(i)
    \/ op = "init" /\ \E t \in ArtinRelations(n) : Relation(t[1], t[2])
    \/ \E m \in 1..(Size - 1) : Replay(m)
    \/ op = "init" /\ \E w \in Words(n, Size - n) \cup DocWords(n) : GetPermutation(w)

Spec == Init /\ [][Next]_vars

\* sessions that insert a generator and its inverse into the word
NextPad ==
    \/ op = "init" /\ \E w \in Words(n, Size - n) : Construct(w)
    \/ op = "new" /\ \E k \in 0..Len(wx), x \in Gens(n) : Pad(k, x)
    \/ op = "new" /\ \E v \in Words(n, Size + 1 - n - Len(wx)) : Compare(v)

SpecPad == Init /\ [][NextPad]_vars

\* sessions that try associativity on three operands
NextAssoc ==
    \/ op = "init" /\ \E w \in Words(n, Size - n) : Construct(w)
    \/ op = "new" /\ \E v \in Words(n, Size - n - Len(wx)) :
                        \E z \in Words(n, Size - n - Len(wx) - Len(v)) :
                            Associate(v, z)

SpecAssoc == Init /\ [][NextAssoc]_vars

(***************************************************************************)
(* Canonical factors on their own: three factors fA, fB, fC of width n,    *)
(* each grown from the identity list(range(n)) the way the sweep grows     *)
(* self.a[j], and the meets of fA and fB.                                   *)
(***************************************************************************)
\* braid.py lines 142 and 154: b = (~a * d).meet(g); a = a * b, for the
\* factor g of a band generator
Absorb(a, pair, w) ==
    CFMul(a, meet(CFMul(CFInv(a), d(w)), createFromPair(pair, w)))

\* C <= A in the canonical-factor order: every descending cycle of C is
\* contained in a descending cycle of A
Refines(dc, da) ==
    \A i \in 1..Len(dc) : \A j \in 1..Len(dc) :
        dc[i] = dc[j] => da[i] = da[j]

LE(c, a) == Refines(d_cycles(c), d_cycles(a))

GrowA(pair) ==
    /\ op \in {"init", "fA"}
    /\ n <= Size - 2
    /\ op' = "fA"
    /\ fA' = Absorb(fA, pair, n)
    /\ UNCHANGED <<n, wx, X, res, fB, fC>>
    /\ _d' = dMemo(_d, n)

GrowB(pair) ==
    /\ op \in {"init", "fA", "fB"}
    /\ n <= Size - 2
    /\ op' = "fB"
    /\ fB' = Absorb(fB, pair, n)
    /\ UNCHANGED <<n, wx, X, res, fA, fC>>
    /\ _d' = dMemo(_d, n)

\* the meets of fA and fB, of fA and the two identities, and of the empty
\* factor with itself
Meet ==
    /\ op \in {"init", "fA", "fB"}
    /\ n <= Size - 2
    /\ op' = "meet"
    /\ res' = [aa |-> meet(fA, fA), ab |-> meet(fA, fB), ba |-> meet(fB, fA),
               ae |-> meet(fA, << >>), ea |-> meet(<< >>, fA),
               ai |-> meet(fA, Range0(n)), ia |-> meet(Range0(n), fA),
               ee |-> meet(<< >>, << >>)]
    /\ UNCHANGED <<n, wx, X, fA, fB, fC, _d>>

\* fC runs through the canonical factors below both fA and fB
GrowCTo(c) ==
    /\ LE(c, fA)
    /\ LE(c, fB)
    /\ op' = "fC"
    /\ fC' = c
    /\ UNCHANGED <<n, wx, X, res, fA, fB>>
    /\ _d' = dMemo(_d, n)

GrowC(pair) ==
    /\ op \in {"meet", "fC"}
    /\ GrowCTo(Absorb(fC, pair, n))

\* the positive band generators a_ts, t > s
PosGens(w) == {g \in BandGens(w) : g[1] > g[2]}

NextFactor ==
    \/ op \in {"init", "fA"} /\ \E pair \in PosGens(n) : GrowA(pair)
    \/ op \in {"init", "fA", "fB"} /\ \E pair \in PosGens(n) : GrowB(pair)
    \/ Meet
    \/ op \in {"meet", "fC"} /\ \E pair \in PosGens(n) : GrowC(pair)

SpecFactor == Init /\ [][NextFactor]_vars

(***************************************************************************)
(* tau on the factors fA and fB                                            *)
(***************************************************************************)
\* the powers tau is tried with: past a full turn in either direction
Pows(w) == (-w - 1)..(w + 1)

\* meet(fA, fB).tau(k) and fA.tau(k).meet(fB.tau(k))
TauMeet(k) ==
    /\ op \in {"init", "fA", "fB"}
    /\ n <= Size - 2
    /\ op' = "taumeet"
    /\ res' = [k |-> k, mt |-> tau(meet(fA, fB), k),
               tm |-> meet(tau(fA, k), tau(fB, k))]
    /\ UNCHANGED <<n, wx, X, fA, fB, fC, _d>>

\* fA.tau(k) next to d ** -k * fA * d ** k, fA * d next to d * fA.tau(1),
\* and fA.tau(j).tau(k) next to fA.tau(j + k)
TauLaw(j, k) ==
    /\ op \in {"init", "fA"}
    /\ n <= Size - 2
    /\ op' = "tau"
    /\ res' = [j |-> j, k |-> k,
               t |-> tau(fA, k),
               conj |-> CFMul(CFMul(CFPow(d(n), -k), fA), CFPow(d(n), k)),
               ad |-> CFMul(fA, d(n)), dt |-> CFMul(d(n), tau(fA, 1)),
               tn |-> tau(fA, n), t0 |-> tau(fA, 0),
               tjk |-> tau(tau(fA, j), k), tsum |-> tau(fA, j + k)]
    /\ UNCHANGED <<n, wx, X, fA, fB, fC>>
    /\ _d' = dMemo(_d, n)

NextTau ==
    \/ op \in {"init", "fA"} /\ \E pair \in PosGens(n) : GrowA(pair)
    \/ op \in {"init", "fA", "fB"} /\ \E pair \in PosGens(n) : GrowB(pair)
    \/ \E k \in Pows(n) : TauMeet(k)
    \/ \E j \in Pows(n), k \in Pows(n) : TauLaw(j, k)

SpecTau == Init /\ [][NextTau]_vars

(***************************************************************************)
(* Braids of two widths meeting in one binary operation.                   *)
(***************************************************************************)
MixedRes(y) ==
    [y |-> y, eq |-> BraidEq(X, y), qe |-> BraidEq(y, X),
     xy |-> BraidMul(X, y), yx |-> BraidMul(y, X)]

\* X == y, y == X, X * y and y * X for y = Braid(v, m), m = 0 standing for
\* Braid() when v is empty
Mixed(m, v) ==
    /\ op = "new"
    /\ op' = "mixed"
    /\ res' = MixedRes(BraidFromArtin(v, m))
    /\ UNCHANGED <<n, wx, X, fA, fB, fC>>
    /\ _d' = dAfterWords(_d, m, {v})

\* the same for y = Braid([], m, p), a power of D of width m
MixedPower(m, p) ==
    /\ op = "new"
    /\ op' = "mixed"
    /\ res' = MixedRes(BraidFromFactors(<< >>, m, p))
    /\ UNCHANGED <<n, wx, X, fA, fB, fC, _d>>

NextWidths ==
    \/ op = "init" /\ \E w \in Words(n, Size - n) : Construct(w)
    \/ op = "new" /\ \E m \in 0..Size : \E v \in Words(m, 1) : Mixed(m, v)
    \/ op = "new" /\ \E m \in 0..Size, p \in -1..1 : MixedPower(m, p)

SpecWidths == Init /\ [][NextWidths]_vars

(***************************************************************************)
(* Operations on Braid objects, with the objects before and after.         *)
(***************************************************************************)
FrameRes(kind, before, st) ==
    [kind |-> kind, before |-> before, after |-> st.heap, ret |-> st.ret]

\* X * Y or Y * X for the objects X and Y = Braid(v, n)
FrameMul(v, i) ==
    /\ op = "new"
    /\ op' = "frame"
    /\ res' = FrameRes("mul", <<X, BraidFromArtin(v, n)>>,
                       HeapMul(<<X, BraidFromArtin(v, n)>>, i, 3 - i))
    /\ UNCHANGED <<n, wx, X, fA, fB, fC>>
    /\ _d' = dAfterWords(_d, n, {v})

\* ~X
FrameInvert ==
    /\ op = "new"
    /\ op' = "frame"
    /\ res' = FrameRes("inv", <<X>>, HeapInv(<<X>>, 1))
    /\ UNCHANGED <<n, wx, X, fA, fB, fC>>
    /\ _d' = dAfterBraid(_d, X)

\* X ** e
FramePow(e) ==
    /\ op = "new"
    /\ n + Len(wx) + Abs(e) <= Size + 1
    /\ op' = "frame"
    /\ res' = FrameRes("pow", <<X>>, HeapPow(<<X>>, 1, e))
    /\ UNCHANGED <<n, wx, X, fA, fB, fC>>
    /\ _d' = dAfterBraid(_d, X)

\* X.twist(g)
FrameTwist(g) ==
    /\ op = "new"
    /\ op' = "frame"
    /\ res' = FrameRes("twist", <<X>>, HeapTwist(<<X>>, 1, g))
    /\ UNCHANGED <<n, wx, X, fA, fB, fC>>
    /\ _d' = dMemo(_d, n)

\* Braid(str(b)) for a braid b at hand
RoundTrip(b) ==
    /\ op \in {"new", "frame"}
    /\ op' = "str"
    /\ res' = [b |-> b, s |-> BraidStr(b), back |-> BraidFromStr(BraidStr(b))]
    /\ UNCHANGED <<n, wx, X, fA, fB, fC, _d>>

NextFrame ==
    \/ op = "init" /\ \E w \in Words(n, Size - n) : Construct(w)
    \/ op = "new" /\ \E v \in Words(n, 1), i \in 1..2 : FrameMul(v, i)
    \/ FrameInvert
    \/ op = "new" /\ \E e \in -2..2 : FramePow(e)
    \/ op = "new" /\ \E g \in Gens(n) : FrameTwist(g)
    \/ op = "new" /\ RoundTrip(X)
    \/ op = "frame" /\ RoundTrip(res.after[res.ret])

SpecFrame == Init /\ [][NextFrame]_vars

(***************************************************************************)
(* Sessions that follow the sweep step by step.                            *)
(***************************************************************************)
\* Braid(w, n) for a band-generator word w, up to the sweep
SweepBand(w) ==
    /\ op = "init"
    /\ n < Size - 2
    /\ op' = "sweep"
    /\ wx' = w
    /\ res' = BandSweepInit(SignLoop(w, n, 0, Len(w) - 2), n)
    /\ _d' = dMemo(_d, n)
    /\ UNCHANGED <<n, X, fA, fB, fC>>

\* Braid(u, n) * Braid(v, n) for two Artin words, up to the sweep of the
\* product's constructor call
SweepProductOf(x, y) ==
    SweepInit([i \in 1..Len(x.a) |-> tau(x.a[i], y.p)] \o y.a, x.p + y.p)

SweepProduct(u, v) ==
    /\ op = "init"
    /\ Len(u) + Len(v) <= Size - n
    /\ BraidFromArtin(u, n).a # << >>
    /\ BraidFromArtin(v, n).a # << >>
    /\ op' = "sweep"
    /\ wx' = u \o v
    /\ res' = SweepProductOf(BraidFromArtin(u, n), BraidFromArtin(v, n))
    /\ _d' = dMemo(_d, n)
    /\ UNCHANGED <<n, X, fA, fB, fC>>

\* while leftmost < rightmost: a pass begins
PassBegin ==
    /\ op = "sweep"
    /\ res.phase = "while"
    /\ res.leftmost < res.rightmost
    /\ res' = PassStart(res)
    /\ UNCHANGED <<n, op, wx, X, fA, fB, fC, _d>>

\* one round of the for loop
Iterate ==
    /\ op = "sweep"
    /\ res.phase = "for"
    /\ res.j > res.leftmost
    /\ res' = IterateStore(res,
                  SweepBody([a |-> res.a, rightmost |-> res.rightmost,
                             newleft |-> res.newleft], n, res.j))
    /\ UNCHANGED <<n, op, wx, X, fA, fB, fC, _d>>

\* the for loop is through
PassEnd ==
    /\ op = "sweep"
    /\ res.phase = "for"
    /\ res.j <= res.leftmost
    /\ res' = PassFinish(res)
    /\ UNCHANGED <<n, op, wx, X, fA, fB, fC, _d>>

\* the while loop is through: lines 156-167
SweepEnd ==
    /\ op = "sweep"
    /\ res.phase = "while"
    /\ ~(res.leftmost < res.rightmost)
    /\ res' = [res EXCEPT !.phase = "done"]
    /\ X' = CleanUp([a |-> res.a, rightmost |-> res.rightmost], n, res.p)
    /\ UNCHANGED <<n, op, wx, fA, fB, fC, _d>>

NextSweep ==
    \/ op = "init" /\ \E w \in BandWords(n, Size - n) : SweepBand(w)
    \/ op = "init" /\ \E u \in Words(n, Size - n), v \in Words(n, Size - n) :
                          SweepProduct(u, v)
    \/ PassBegin
    \/ Iterate
    \/ PassEnd
    \/ SweepEnd

SpecSweep == Init /\ [][NextSweep]_vars

(***************************************************************************)
(* Sessions that shift one band generator in place, once or twice, next    *)
(* to the factor of the unshifted pair.                                    *)
(***************************************************************************)
\* the pair g after Braid._tauband(g, n, k), its factor, and the factor of
\* the pair before the call shifted by tau(k)
BandRes(g, k, out) ==
    [g |-> g, k |-> k, out |-> out,
     made |-> createFromPair(out, n),
     shifted |-> tau(createFromPair(g, n), k)]

\* g = [t, s]; Braid._tauband(g, n, k)
TauBand(g, k) ==
    /\ op = "init"
    /\ op' = "tauband"
    /\ res' = BandRes(g, k, _tauband(g, n, k))
    /\ UNCHANGED <<n, wx, X, fA, fB, fC, _d>>

\* a second call on the same list, as in the docstring
TauBandAgain(k) ==
    /\ op = "tauband"
    /\ op' = "tauband2"
    /\ res' = BandRes(res.out, k, _tauband(res.out, n, k))
    /\ UNCHANGED <<n, wx, X, fA, fB, fC, _d>>

NextBand ==
    \/ \E g \in BandGens(n), k \in (0 - 2 * n - 1)..(2 * n + 1) : TauBand(g, k)
    \/ \E k \in {0 - n - 1, 0 - 1, 0, 1, n, n + 2} : TauBandAgain(k)

SpecBand == Init /\ [][NextBand]_vars

(***************************************************************************)
(* Sessions that construct a braid from a power and a list of factors.     *)
(***************************************************************************)
\* Braid([CanonicalFactor.createFromPair(g, n) for g in w], n, p)
FromFactors(w, p) ==
    /\ op = "init"
    /\ n < Size - 2 \/ w = << >>
    /\ op' = "list"
    /\ wx' = w
    /\ res' = [p |-> p, a |-> [i \in 1..Len(w) |-> createFromPair(w[i], n)]]
    /\ X' = BraidFromFactors([i \in 1..Len(w) |-> createFromPair(w[i], n)],
                             n, p)
    /\ _d' = IF w = << >> THEN _d ELSE dMemo(_d, n)
    /\ UNCHANGED <<n, fA, fB, fC>>

\* Braid(X.a, X.n, X.p) for a braid X already made
FromOwnFactors ==
    /\ op = "list"
    /\ op' = "relist"
    /\ res' = [p |-> X.p, a |-> X.a]
    /\ X' = BraidFromFactors(X.a, n, X.p)
    /\ _d' = IF X.a = << >> THEN _d ELSE dMemo(_d, n)
    /\ UNCHANGED <<n, wx, fA, fB, fC>>

NextList ==
    \/ \E w \in BandWords(n, Size - n) \cup {<< >>}, p \in (0 - 1)..1 :
           FromFactors(w, p)
    \/ FromOwnFactors

SpecList == Init /\ [][NextList]_vars

(***************************************************************************)
(* Sessions that construct twice from one word object: wx is the caller's  *)
(* list as it stands, res.w its contents before the first call.            *)
(***************************************************************************)
\* w = [...]; first = Braid(w, n)
CallBand(w) ==
    /\ op = "init"
    /\ op' = "call"
    /\ wx' = CallerWord(w, n)
    /\ X' = BraidFromBand(w, n)
    /\ res' = [w |-> w, first |-> BraidFromBand(w, n)]
    /\ _d' = dMemo(_d, n)
    /\ UNCHANGED <<n, fA, fB, fC>>

\* second = Braid(w, n) on the same list
CallAgain ==
    /\ op = "call"
    /\ op' = "again"
    /\ wx' = CallerWord(wx, n)
    /\ X' = BraidFromBand(wx, n)
    /\ res' = [w |-> res.w, first |-> res.first,
               second |-> BraidFromBand(wx, n)]
    /\ UNCHANGED <<n, fA, fB, fC, _d>>

NextCaller ==
    \/ \E w \in BandWords(n, Size - n) : CallBand(w)
    \/ CallAgain

SpecCaller == Init /\ [][NextCaller]_vars

(***************************************************************************)
(* Sessions that construct from words with entries no generator of B_n     *)
(* answers to: 0, and x with |x| >= n.                                     *)
(***************************************************************************)
LooseWords(w, len) == UNION {[1..l -> (0 - w)..w] : l \in 0..len}

\* Braid(w, n), next to Braid(w', n) for w' = the entries of w in range
ConstructLoose(w) ==
    /\ op = "init"
    /\ op' = "loose"
    /\ wx' = w
    /\ res' = [b |-> BraidFromArtin(w, n),
               ref |-> BraidFromArtin(SelectSeq(w, LAMBDA x : x \in Gens(n)), n)]
    /\ _d' = IF ArtinToBand(w, n) = << >> THEN _d ELSE dMemo(_d, n)
    /\ UNCHANGED <<n, X, fA, fB, fC>>

NextLoose == \E w \in LooseWords(n, Size - n) : ConstructLoose(w)

SpecLoose == Init /\ [][NextLoose]_vars

(***************************************************************************)
(* The dictionary of D across braids of the widths 1..n.                    *)
(***************************************************************************)
MemoRes(w, got) == [w |-> w, had |-> w \in dKeys(_d), got |-> got]

\* Braid.d(w)
AskD(w) ==
    /\ op \in {"init", "memo"}
    /\ op' = "memo"
    /\ res' = MemoRes(w, dValue(_d, w))
    /\ _d' = dMemo(_d, w)
    /\ UNCHANGED <<n, wx, X, fA, fB, fC>>

\* X = Braid(v, w) for a width w of its own
MemoConstruct(w, v) ==
    /\ op \in {"init", "memo"}
    /\ op' = "memo"
    /\ wx' = v
    /\ X' = BraidFromArtin(v, w)
    /\ res' = MemoRes(w, IF v = << >> THEN << >> ELSE dValue(_d, w))
    /\ _d' = dAfterWords(_d, w, {v})
    /\ UNCHANGED <<n, fA, fB, fC>>

\* X = ~X
MemoInvert ==
    /\ op = "memo"
    /\ X.n # 0
    /\ X' = BraidInv(X)
    /\ res' = MemoRes(X.n, IF BraidBool(X) THEN dValue(_d, X.n) ELSE << >>)
    /\ _d' = dAfterBraid(_d, X)
    /\ UNCHANGED <<n, op, wx, fA, fB, fC>>

NextMemo ==
    \/ \E w \in 1..n : AskD(w)
    \/ \E w \in 1..n : \E v \in Words(w, 1) \cap Words(2, 1) : MemoConstruct(w, v)
    \/ MemoInvert

SpecMemo == Init /\ [][NextMemo]_vars

(***************************************************************************)
(* Permutations and factors taken one operation at a time.                 *)
(***************************************************************************)
\* the width of the createFromPair doctest
DocWidth == 7

\* CanonicalFactor.createFromPair([t, s], w), with createFromPair([s, t], w)
\* and D of that width kept beside it
FromPair(t, s, w) ==
    /\ op = "init"
    /\ op' = "pair"
    /\ res' = [t |-> t, s |-> s, w |-> w,
               f |-> createFromPair(<<t, s>>, w),
               g |-> createFromPair(<<s, t>>, w),
               dw |-> d(w)]
    /\ UNCHANGED <<n, wx, X, fA, fB, fC>>
    /\ _d' = dMemo(_d, w)

\* the permutations of width w in array form
Perms(w) ==
    {f \in [1..w -> 0..(w - 1)] : \A i \in 1..w, j \in 1..w : f[i] = f[j] => i = j}

\* Permutation() == P and P == Permutation(), and the same for
\* CanonicalFactor
EqualEmpty(P) ==
    /\ op = "init"
    /\ n <= Size - 1
    /\ op' = "eq0"
    /\ res' = [P |-> P,
               le |-> PermEq(<< >>, P), ri |-> PermEq(P, << >>),
               cle |-> CFEq(<< >>, P), cri |-> CFEq(P, << >>)]
    /\ UNCHANGED <<n, wx, X, fA, fB, fC, _d>>

\* P * Q as permutations and as canonical factors, and P times a size-0
\* value on either side
Compose(P, Q) ==
    /\ op = "init"
    /\ n <= Size - 2
    /\ op' = "compose"
    /\ res' = [P |-> P, Q |-> Q,
               pq |-> PermMul(P, Q), cpq |-> CFMul(P, Q),
               pe |-> PermMul(P, << >>), ep |-> PermMul(<< >>, P)]
    /\ UNCHANGED <<n, wx, X, fA, fB, fC, _d>>

NextPerm ==
    \/ \E w \in {n, DocWidth} : \E t \in 1..w, s \in 1..w : FromPair(t, s, w)
    \/ op = "init" /\ n <= Size - 1 /\ \E P \in Perms(n) : EqualEmpty(P)
    \/ op = "init" /\ n <= Size - 2 /\ \E P \in Perms(n), Q \in Perms(n) : Compose(P, Q)

SpecPerm == Init /\ [][NextPerm]_vars

(***************************************************************************)
(* Properties                                                              *)
(***************************************************************************)
\* the identity braid of width w
IdentityBraid(w) == [n |-> w, p |-> 0, a |-> << >>]

\* left-weighted normal form: no factor is the identity or D, and nothing of
\* a factor can be absorbed by the factor on its left
LeftWeighted(b) ==
    /\ \A i \in 1..Len(b.a) : CFBool(b.a[i]) /\ ~CFEq(b.a[i], d(b.n))
    /\ \A i \in 1..(Len(b.a) - 1) :
          ~CFBool(meet(CFMul(CFInv(b.a[i]), d(b.n)), b.a[i + 1]))

\* the braids a session has produced so far
Produced ==
    IF op = "init" THEN {}
    ELSE IF op \in {"new", "band"} THEN {X}
    ELSE IF op = "cmp" THEN {X, res.y}
    ELSE IF op = "mul" THEN {X, res.y, res.xy}
    ELSE IF op = "inv" THEN {X, res.inv, res.xi, res.ix}
    ELSE IF op = "pow" THEN {X, res.pa, res.pb, res.prod, res.pab}
    ELSE IF op = "twist" THEN {X, res.t, res.m, res.back}
    ELSE IF op = "assoc" THEN {X, res.y, res.c, res.l, res.r}
    ELSE IF op = "replay" THEN {X, res.b}
    ELSE IF op = "perm" THEN {res.b}
    ELSE {X, res.b1, res.b2}

\* C1: every braid built from an Artin or band-generator word, or by
\* multiply, invert, power or twist on such braids, is in left-weighted
\* normal form: no stored factor is the identity or D, and for every adjacent
\* pair meet(a_i^-1 * D, a_(i+1)) is the identity.
C1_LeftWeighted == \A b \in Produced : LeftWeighted(b)

\* a product, with negative power of D, whose factors the sweep had to
\* rearrange
C1_Witness ==
    /\ op = "mul"
    /\ Len(res.xy.a) >= 2
    /\ res.xy.p < 0
    /\ Len(res.xy.a) < Len(X.a) + Len(res.y.a)

\* C2: words of the same group element normalize to the same (n, p, a):
\* inserting x, -x or -x, x anywhere into a word leaves the braid unchanged;
\* the braid spells out the word's own group element, so braids of different
\* elements differ; and X == Y exactly when the two words are the same
\* element.
C2_SameElementSameForm ==
    /\ op = "pad" => res.b1 = X /\ res.b2 = X
    /\ op = "new" => ArtinAct(BraidWord(X), n) = ArtinAct(wx, n)
    /\ op = "cmp" =>
          /\ BraidEq(X, res.y) <=> ArtinAct(wx, n) = ArtinAct(res.v, n)
          /\ BraidEq(X, res.y) <=> X = res.y

C2_Witness ==
    /\ op = "pad"
    /\ res.k = 1
    /\ Len(wx) = 2
    /\ Len(X.a) = 2
    /\ wx[1] # res.x /\ wx[1] # -res.x

\* C3: X * ~X and ~X * X are the identity (p = 0, k = 0).
C3_InverseCancels ==
    op = "inv" => res.xi = IdentityBraid(n) /\ res.ix = IdentityBraid(n)

C3_Witness == op = "inv" /\ Len(X.a) >= 2 /\ X.p < 0 /\ res.inv.p # -X.p

\* C4: (X * Y) * Z and X * (Y * Z) are the same (n, p, a).
C4_Associative == op = "assoc" => res.l = res.r /\ BraidEq(res.l, res.r)

C4_Witness ==
    /\ op = "assoc"
    /\ Len(wx) >= 1 /\ Len(res.v) >= 1 /\ Len(res.z) >= 1
    /\ Len(res.l.a) >= 2
    /\ BraidMul(X, res.y).a # X.a \o res.y.a

\* C5: sigma_i sigma_j = sigma_j sigma_i for |i - j| >= 2 and
\* sigma_i sigma_(i+1) sigma_i = sigma_(i+1) sigma_i sigma_(i+1) hold on the
\* normal forms, for generator indices 0 < i, j < n.
C5_ArtinRelations == op = "rel" => BraidEq(res.b1, res.b2) /\ res.b1 = res.b2

C5_Witness ==
    /\ op = "rel" /\ n = 4
    /\ res.l \in {<<1, 3>>, <<2, 3, 2>>}
    /\ BraidBool(res.b1)

\* C6: X ** 0 is the identity, X ** e is the braid of the word repeated e
\* times (of the inverse word for e < 0), and X**a * X**b == X**(a + b).
C6_PowerLaw ==
    op = "pow" =>
        /\ BraidEq(res.prod, res.pab)
        /\ res.a = 0 => ~BraidBool(res.pa)
        /\ BraidEq(res.pa, BraidFromArtin(WordPow(wx, res.a), n))

C6_Witness ==
    /\ op = "pow"
    /\ res.a = 2 /\ res.b = -1
    /\ BraidBool(X)
    /\ res.pab = X

\* C7: X.twist(i) == X * Braid([i], n), X.twist(i).twist(-i) == X and
\* X.twist(i) != X, for 0 < |i| < n.
C7_Twist ==
    op = "twist" =>
        /\ BraidEq(res.t, res.m) /\ res.t = res.m
        /\ BraidEq(res.back, X)
        /\ ~BraidEq(res.t, X)

C7_Witness ==
    /\ op = "twist"
    /\ res.i < 0
    /\ Len(X.a) >= 2
    /\ Len(res.t.a) < Len(X.a)

\* C8: meet is idempotent: meet(A, A) == A for every canonical factor A.
C8_MeetIdempotent ==
    op \in {"meet", "fC"} =>
        /\ CFEq(res.aa, fA) /\ res.aa = fA
        /\ CFEq(res.ee, << >>) /\ res.ee = << >>

C8_Witness ==
    /\ op = "meet"
    /\ Cardinality({d_cycles(fA)[i] : i \in 1..n}) = 2
    /\ \E i \in 1..(n - 2) :
          d_cycles(fA)[i] = d_cycles(fA)[i + 2]
              /\ d_cycles(fA)[i] # d_cycles(fA)[i + 1]

\* C9: meet is commutative: meet(A, B) and meet(B, A) are the same array form.
C9_MeetCommutative ==
    op \in {"meet", "fC"} => CFEq(res.ab, res.ba) /\ res.ab = res.ba

C9_Witness ==
    /\ op = "meet"
    /\ ~LE(fA, fB) /\ ~LE(fB, fA)
    /\ CFBool(res.ab)
    /\ MeetOrder(d_cycles(fA), d_cycles(fB), 0..(n - 1))
          # MeetOrder(d_cycles(fB), d_cycles(fA), 0..(n - 1))

\* C10: meet(A, B) is the greatest lower bound of A and B in the order
\* "every descending cycle of C lies in a descending cycle of A":
\* meet(A, B) <= A, meet(A, B) <= B, every C with C <= A and C <= B is
\* <= meet(A, B), and meet(A, identity) is the identity.
C10_MeetGreatestLowerBound ==
    op \in {"meet", "fC"} =>
        /\ LE(res.ab, fA)
        /\ LE(res.ab, fB)
        /\ op = "fC" => LE(fC, res.ab)
        /\ ~CFBool(res.ae) /\ ~CFBool(res.ea)
        /\ ~CFBool(res.ai) /\ ~CFBool(res.ia)

C10_Witness ==
    /\ op = "fC"
    /\ CFBool(fC)
    /\ fC = res.ab
    /\ fC # fA /\ fC # fB
    /\ ~LE(fA, fB) /\ ~LE(fB, fA)

\* C11: tau commutes with meet: meet(A, B).tau(k) == meet(A.tau(k), B.tau(k))
\* for all canonical factors A, B of equal width and every power k.
C11_TauCommutesWithMeet ==
    op = "taumeet" => CFEq(res.mt, res.tm) /\ res.mt = res.tm

C11_Witness ==
    /\ op = "taumeet"
    /\ res.k % n # 0
    /\ CFBool(res.mt)
    /\ res.mt # meet(fA, fB)
    /\ res.mt # tau(fA, res.k) /\ res.mt # tau(fB, res.k)

\* C12: tau is conjugation by D: A.tau(k) == D^(-k) * A * D^k under the
\* factor multiplication, and A * D == D * A.tau(1).
C12_TauIsConjugationByD ==
    op = "tau" =>
        /\ CFEq(res.t, res.conj) /\ CFEq(res.conj, res.t)
        /\ CFEq(res.ad, res.dt) /\ res.ad = res.dt

C12_Witness ==
    /\ op = "tau"
    /\ res.k < 0
    /\ res.t # fA
    /\ res.conj = res.t
    /\ CFBool(fA) /\ fA # d(n)

\* C13: tau has order dividing n: A.tau(n) == A, A.tau(0) == A and
\* A.tau(j).tau(k) == A.tau(j + k) for all integers j, k.
C13_TauOrder ==
    op = "tau" =>
        /\ CFEq(res.tn, fA) /\ res.tn = fA
        /\ CFEq(res.t0, fA) /\ res.t0 = fA
        /\ CFEq(res.tjk, res.tsum) /\ res.tjk = res.tsum

C13_Witness ==
    /\ op = "tau"
    /\ res.j > 0 /\ res.k < 0 /\ res.j + res.k # 0
    /\ tau(fA, res.j) # fA
    /\ res.tjk # fA
    /\ res.tjk = res.tsum

C15_ReplayTranspositions ==
    op = "replay" =>
        /\ res.b.p = 0
        /\ Len(res.b.a) = 1
        /\ CFEq(res.b.a[1], res.A)
        /\ res.b.a[1] = res.A
        /\ Len(res.tr) = res.num

C15_Witness ==
    /\ op = "replay"
    /\ res.m = 2
    /\ res.num = 2
    /\ res.tr[1][1] - res.tr[1][2] > 1
    /\ res.b.a = <<res.A>>

\* the i-fold product D * ... * D under the factor multiplication
RECURSIVE DPower(_, _)
DPower(w, i) == IF i = 0 THEN Range0(w) ELSE CFMul(DPower(w, i - 1), d(w))

\* C16: getPermutation(X) is D^p times the product of the factors of X, and
\* for X built from an Artin word w of width n it is the product, in word
\* order, of the adjacent transpositions of positions |x|-1 and |x| for x in
\* w, whatever the signs; Braid([1,2,-1,-2],5) gives [2,0,1,3,4],
\* Braid([-3],5) gives [0,1,3,2,4] and Braid([],5) the identity of width 5
C16_GetPermutation ==
    op = "perm" =>
        /\ res.perm = res.word
        /\ res.b.p >= 0 =>
              res.perm = CFMul(DPower(n, res.b.p),
                               FactorProduct(Range0(n), res.b.a, 1))
        /\ res.b.p < 0 =>
              CFMul(DPower(n, -res.b.p), res.perm)
                  = FactorProduct(Range0(n), res.b.a, 1)
        /\ res.w = <<1, 2, -1, -2>> /\ n = 5 => res.perm = <<2, 0, 1, 3, 4>>
        /\ res.w = <<-3>> /\ n = 5 => res.perm = <<0, 1, 3, 2, 4>>
        /\ res.w = << >> => res.perm = Range0(n)

C16_Witness ==
    /\ op = "perm"
    /\ res.w = <<1, 2, -1, -2>>
    /\ res.b.p < 0 /\ Len(res.b.a) = 2
    /\ res.perm = <<2, 0, 1, 3, 4>>

\* the identity braid of any width: p = 0 and no factors
Trivial(b) == b.p = 0 /\ b.a = << >>

\* n, p and the factor lists all match
SameTriple(b, c) == b.n = c.n /\ b.p = c.p /\ b.a = c.a

\* C17 as stated: when either operand has width 0 the result is true exactly
\* when the other operand is the identity, and otherwise two braids are
\* equal iff their n, p and factor lists all match
C17_AsStated ==
    op = "mixed" =>
        /\ res.y.n = 0 => (res.eq <=> Trivial(X)) /\ (res.qe <=> Trivial(X))
        /\ res.y.n # 0 => /\ res.eq <=> SameTriple(X, res.y)
                          /\ res.qe <=> SameTriple(X, res.y)

\* C17, amended: when either operand is the identity braid (p = 0 and no
\* factors), of whatever width, width 0 included, the result is true exactly
\* when the other operand is the identity too, so identity braids of
\* different widths are equal; otherwise two braids are equal iff their n,
\* p and factor lists all match
C17_Equality ==
    op = "mixed" =>
        /\ (Trivial(X) \/ Trivial(res.y)) =>
              /\ res.eq <=> (Trivial(X) /\ Trivial(res.y))
              /\ res.qe <=> (Trivial(X) /\ Trivial(res.y))
        /\ ~(Trivial(X) \/ Trivial(res.y)) =>
              /\ res.eq <=> SameTriple(X, res.y)
              /\ res.qe <=> SameTriple(X, res.y)

C17_Witness ==
    /\ op = "mixed"
    /\ Trivial(X) /\ Trivial(res.y)
    /\ res.y.n # 0 /\ res.y.n # n
    /\ res.eq /\ res.qe

\* C18: Permutation and CanonicalFactor equality treat a size-0 value as a
\* wildcard identity in both operand orders: with one of P, Q of size 0,
\* P == Q is true when the other is the identity of width n, whichever is
\* on the left, and false when the other is not the identity
C18_WildcardBothOrders ==
    op = "eq0" =>
        /\ res.le <=> res.P = Range0(n)
        /\ res.ri <=> res.P = Range0(n)
        /\ res.cle <=> res.P = Range0(n)
        /\ res.cri <=> res.P = Range0(n)

C20_WidthMismatchFails ==
    (op = "mixed" /\ res.y.n # 0 /\ res.y.n # n) =>
        /\ res.xy = Raised("TypeError")
        /\ res.yx = Raised("TypeError")

C22_StringRoundTrip ==
    op = "str" =>
        /\ "a" \in DOMAIN res.back
        /\ res.back.n = res.b.n
        /\ res.back.p = res.b.p
        /\ res.back.a = res.b.a
        /\ BraidEq(res.back, res.b)

\* the factor [w-1, 0, 1, ..., w-2]
IsD(f, w) ==
    /\ Len(f) = w
    /\ f[1] = w - 1
    /\ \A i \in 2..w : f[i] = i - 2

\* every entry of the dictionary is D of its key, one entry to a key, and a
\* call that returned a factor returned D of the width asked for
MemoRight ==
    /\ \A e \in _d : IsD(e.val, e.key)
    /\ \A e \in _d, f \in _d : e.key = f.key => e = f
    /\ (op = "memo" /\ res.got # << >>) => IsD(res.got, res.w)
    /\ (op = "memo" /\ res.got # << >>) => res.w \in dKeys(_d)

\* C23: whatever the braid operations and the order in which the widths are
\* first asked for, d(n) returns [n-1, 0, 1, ..., n-2]; the entry for n is
\* made on the first request and never replaced or changed afterwards
C23_DMemo == [](MemoRight) /\ [][_d \subseteq _d']_vars

C23_Witness ==
    /\ op = "memo"
    /\ Cardinality(_d) >= 3
    /\ res.had
    /\ res.w < SetMax(dKeys(_d))
    /\ IsD(res.got, res.w)

\* C24: the sweep ends on every factor list of length k: in every pass the
\* left boundary of the window strictly increases and the right boundary
\* never increases, the loop is left when they meet, and there are at most
\* k^2 meet evaluations in all
C24_SweepTerminates ==
    op = "sweep" =>
        /\ res.rightmost <= res.prevright
        /\ (res.phase = "while" /\ res.passes > 0) =>
              res.leftmost > res.prevleft
        /\ res.phase = "for" => res.newleft > res.leftmost
        /\ res.phase = "done" => res.leftmost >= res.rightmost
        /\ res.passes <= Len(res.a0)
        /\ res.meets <= Len(res.a0) * Len(res.a0)

C24_Witness ==
    /\ op = "sweep"
    /\ res.phase = "done"
    /\ res.passes >= 2
    /\ res.rightmost < Len(res.a0) - 2
    /\ res.meets > Len(res.a0)

\* the braid D^p a_1 ... a_k of a power and a factor list
SweepBraid(p, a) == [n |-> n, p |-> p, a |-> a]

\* the factors of a from position k + 1 on are identities or placeholders
RECURSIVE OnlyIdentities(_, _)
OnlyIdentities(a, k) ==
    k >= Len(a) \/ (~CFBool(a[k + 1]) /\ OnlyIdentities(a, k + 1))

\* b is the list a without k leading D and without trailing identities,
\* with k added to the power
TrimOf(b, a, p) ==
    \E k \in 0..Len(a) :
        /\ b.p = p + k
        /\ k + Len(b.a) <= Len(a)
        /\ \A i \in 1..k : a[i] = d(n)
        /\ b.a = SubSeq(a, k + 1, k + Len(b.a))
        /\ OnlyIdentities(a, k + Len(b.a))

\* one round of the for loop at position j (counted from 0): the product of
\* the pair (a_j, a_j+1) and every other factor are as before
TransferStep ==
    (op = "sweep" /\ res.phase = "for" /\ res'.phase = "for"
       /\ res'.j = res.j - 1) =>
        /\ ArtinAct(BraidWord(SweepBraid(0,
               <<res'.a[res.j + 1], res'.a[res.j + 2]>>)), n)
             = ArtinAct(BraidWord(SweepBraid(0,
                   <<res.a[res.j + 1], res.a[res.j + 2]>>)), n)
        /\ \A i \in 1..Len(res.a) :
               i \notin {res.j + 1, res.j + 2} => res'.a[i] = res.a[i]
        /\ res'.p = res.p
        /\ Len(res'.a) = Len(res.a)

\* C25: every transfer step of the sweep leaves the product of the pair, the
\* power, the width and all other factors unchanged; the trim removes only
\* identity factors and turns each leading D into one increment of the
\* power; D^p times the product of the factors is the same group element
\* before and after normalization
C25_SweepPreservesElement ==
    /\ [](op = "sweep" =>
            /\ res.p = res.p0
            /\ \A i \in 1..Len(res.a) : Len(res.a[i]) \in {0, n}
            /\ ArtinAct(BraidWord(SweepBraid(res.p, res.a)), n)
                 = ArtinAct(BraidWord(SweepBraid(res.p0, res.a0)), n)
            /\ res.phase = "done" =>
                  /\ X.n = n
                  /\ TrimOf(X, res.a, res.p)
                  /\ ArtinAct(BraidWord(X), n)
                       = ArtinAct(BraidWord(SweepBraid(res.p0, res.a0)), n))
    /\ [][TransferStep]_vars

C25_Witness ==
    /\ op = "sweep"
    /\ res.phase = "done"
    /\ res.a # res.a0
    /\ X.p > res.p0
    /\ Len(X.a) > 0
    /\ Len(X.a) + (X.p - res.p0) < Len(res.a0)

\* C26: for every pair g = [t, s] of distinct components in 1..n and every
\* integer power k, beyond n too, the factor of the pair shifted in place by
\* _tauband is the factor of g shifted by tau(k); both components stay in
\* 1..n and the pair stays positive (first > second) or negative as it was
C26_TauBandAgreesWithTau ==
    op \in {"tauband", "tauband2"} =>
        /\ res.out[1] \in 1..n
        /\ res.out[2] \in 1..n
        /\ (res.out[1] > res.out[2]) <=> (res.g[1] > res.g[2])
        /\ CFEq(res.made, res.shifted)
        /\ res.made = res.shifted

C26_Witness ==
    /\ op = "tauband"
    /\ Abs(res.k) > n
    /\ res.g[1] < res.g[2]
    /\ res.out # res.g
    /\ ((res.g[1] + res.k - 1) % n > (res.g[2] + res.k - 1) % n)
         # (res.g[1] > res.g[2])

\* C27 as stated: a braid constructed from a power p and a list of factors
\* has exactly that p and exactly that list
C27_AsStated ==
    op \in {"list", "relist"} => X.p = res.p /\ X.a = res.a

\* C27: a braid constructed from a power p and a list of factors is the
\* left-weighted form of D^p times the product of the list: the list is swept
\* and trimmed as for a word; it is kept exactly, with that p, when it is
\* empty or already left-weighted without D and identity factors
C27_FactorListNormalized ==
    op \in {"list", "relist"} =>
        /\ X.n = n
        /\ LeftWeighted(X)
        /\ ArtinAct(BraidWord(X), n)
             = ArtinAct(BraidWord([n |-> n, p |-> res.p, a |-> res.a]), n)
        /\ (res.a = << >> \/ LeftWeighted([n |-> n, p |-> res.p, a |-> res.a]))
              => X.p = res.p /\ X.a = res.a

C27_Witness ==
    /\ op = "list"
    /\ Len(res.a) >= 3
    /\ Len(X.a) >= 1
    /\ Len(X.a) < Len(res.a)
    /\ X.p # res.p

\* C28: in every braid of width n made from words by the constructors and by
\* multiply, invert, power and twist, each stored factor has size exactly n,
\* is a bijection on 0..n-1 and equals the permutation rebuilt from its own
\* descending-cycle array; no size-0 placeholder of the sweep is left
C28_StoredFactors ==
    \A b \in Produced \ {BraidEmpty} :
        /\ b.n = n
        /\ \A i \in 1..Len(b.a) :
              /\ Len(b.a[i]) = n
              /\ {b.a[i][k] : k \in 1..n} = 0..(n - 1)
              /\ createFromDcycle(d_cycles(b.a[i])) = b.a[i]

\* a product whose sweep emptied a factor on the way
C28_Witness ==
    /\ op = "mul"
    /\ Len(res.xy.a) >= 1
    /\ Len(res.xy.a) < Len(X.a) + Len(res.y.a)
    /\ res.xy.p > X.p + res.y.p
    /\ \E i \in 1..Len(res.xy.a) : numTranspositions(res.xy.a[i]) >= 2

\* C29: constructing a braid from a band-generator word leaves the caller's
\* word as it was, the outer list and every pair, so that constructing twice
\* from the same word object gives equal braids, with or without negative
\* generators
C29_CallerWordUnchanged ==
    /\ op \in {"call", "again"} => wx = res.w
    /\ op = "again" => BraidEq(res.first, res.second)

\* C30: entries x = 0 and |x| >= n of an Artin word are skipped without
\* error: Braid(w, n) is Braid(w', n) for w' = w without those entries, and
\* the identity of width n when w is not empty and w' is
C30_OutOfRangeSkipped ==
    op = "loose" =>
        /\ "err" \notin DOMAIN res.b
        /\ res.b = res.ref

=============================================================================
